---- MODULE Spec2Model ----
(***************************************************************************)
(* Model of context.go: the stores (mapContext, mergedContext) and the     *)
(* ExecutionContext life cycle (newExecutionContext,                       *)
(* NewChildExecutionContext), with the Store operations applied to the     *)
(* Public, Private and Shared slots of every scope.                        *)
(*                                                                         *)
(* Go values of reference type (maps, mergedContext over two references)   *)
(* are modelled as addresses into a heap, so that aliasing is visible: two *)
(* slots that hold the same address hold the same object.  An address is   *)
(* the pair <<allocation site, scope that allocated>>.                     *)
(***************************************************************************)
EXTENDS Integers, Sequences, FiniteSets, TLC

(* ---- bounds ---- *)
MaxSteps == 5       \* operations of one run: scopes built plus calls made on them

(* ---- values ---- *)
Names     == {"a", "pongo2"}
Values    == {1, 2}
Templates == {"tpl"}

\* the reference to the package-level map pongo2MetaContext
pongo2MetaContext == 0
\* the zero interface{} a map lookup yields for an absent key
NilValue == 0 - 1
\* the nil context (an interface field never assigned)
NilCtx == <<"nil", 0>>
\* address of the store the caller passes to newExecutionContext
UserStore == <<"user", 0>>

VARIABLES
    autoescape,   \* package variable autoescape
    heap,         \* address -> store object: mapContext or mergedContext
    scopes,       \* sequence of ExecutionContext structs
    parentOf,     \* parentOf[i]: the scope i was derived from, 0 for a root
    ncalls,       \* number of calls made so far on scopes and on SetAutoescape
    last          \* the operation performed last, with its arguments

vars == <<autoescape, heap, scopes, parentOf, ncalls, last>>

\* the record of one operation: scope 0, key "" and val 0 where it has none
Op(op, scope, key, val) == [op |-> op, scope |-> scope, key |-> key, val |-> val]

EmptyMap == [n \in {} |-> NilValue]

\* the contents the caller's store can have when it is handed over
UserStores == {EmptyMap, [n \in {"a"} |-> 1]}

\* mapContext{...}
MapCtx(m) == [kind |-> "map", m |-> m, a |-> NilCtx, b |-> NilCtx]

\* mergeContexts with the two arguments stored in each other's field
mergeContextsSwapped(a, b) == [kind |-> "merged", m |-> [n \in {} |-> 0 - 1], a |-> b, b |-> a]

\* mergeContexts(a, b) : mergedContext{a: a, b: b}
mergeContexts(a, b) == [kind |-> "merged", m |-> EmptyMap, a |-> a, b |-> b]

\* m[key] = val keeping the entry the map already has for key
MapPutKeepOld(m, key, val) ==
    [n \in (DOMAIN m) \cup {key} |-> IF n \in DOMAIN m THEN m[n] ELSE val]

\* m[key] = val on a Go map
MapPut(m, key, val) ==
    [n \in (DOMAIN m) \cup {key} |-> IF n = key THEN val ELSE m[n]]

\* mapContext.GetValue
mapGetValue(m, key) ==
    IF key \in DOMAIN m THEN [val |-> m[key], found |-> TRUE]
                        ELSE [val |-> NilValue, found |-> FALSE]

RECURSIVE GetValueBaseFirst(_, _, _)
\* GetValue with the two lookups of mergedContext.GetValue in the other order
GetValueBaseFirst(h, s, key) ==
    IF h[s].kind = "map"
    THEN mapGetValue(h[s].m, key)
    ELSE LET r == GetValueBaseFirst(h, h[s].a, key)
         IN  IF ~r.found THEN GetValueBaseFirst(h, h[s].b, key) ELSE r

RECURSIVE GetValueOverlayOnly(_, _, _)
\* GetValue with mergedContext.GetValue lacking the fallback to m.a
GetValueOverlayOnly(h, s, key) ==
    IF h[s].kind = "map"
    THEN mapGetValue(h[s].m, key)
    ELSE GetValueOverlayOnly(h, h[s].b, key)

RECURSIVE GetValue(_, _, _)
\* context.GetValue on the store s of heap h
GetValue(h, s, key) ==
    IF h[s].kind = "map"
    THEN mapGetValue(h[s].m, key)
    ELSE LET r == GetValue(h, h[s].b, key)
         IN  IF ~r.found THEN GetValue(h, h[s].a, key) ELSE r

RECURSIVE SetValueIntoBase(_, _, _, _)
\* SetValue with mergedContext.SetValue forwarding to m.a instead of m.b
SetValueIntoBase(h, s, key, val) ==
    IF h[s].kind = "map"
    THEN [h EXCEPT ![s].m = MapPut(@, key, val)]
    ELSE SetValueIntoBase(h, h[s].a, key, val)

RECURSIVE SetValue(_, _, _, _)
\* context.SetValue on the store s of heap h: the heap after the call
SetValue(h, s, key, val) ==
    IF h[s].kind = "map"
    THEN [h EXCEPT ![s].m = MapPut(@, key, val)]
    ELSE SetValue(h, h[s].b, key, val)

\* the orders in which a range over a Go map can deliver the keys
Perms(S) ==
    {f \in [1..Cardinality(S) -> S] : \A i, j \in 1..Cardinality(S) : f[i] = f[j] => i = j}

\* mapContext.GetIdentifiers: every result the call can return
mapGetIdentifiers(m) == Perms(DOMAIN m)

\* the sequence x without the elements that occur in the sequence seen
Without(x, seen) == SelectSeq(x, LAMBDA e : \A i \in 1..Len(seen) : seen[i] # e)

RECURSIVE GetIdentifiersDedup(_, _)
\* GetIdentifiers with mergedContext.GetIdentifiers skipping the names of m.b
\* that m.a listed already
GetIdentifiersDedup(h, s) ==
    IF h[s].kind = "map"
    THEN mapGetIdentifiers(h[s].m)
    ELSE {x \o Without(y, x) : x \in GetIdentifiersDedup(h, h[s].a),
                                y \in GetIdentifiersDedup(h, h[s].b)}

RECURSIVE GetIdentifiersOverlayOnly(_, _)
\* GetIdentifiers with mergedContext.GetIdentifiers listing m.b only
GetIdentifiersOverlayOnly(h, s) ==
    IF h[s].kind = "map"
    THEN mapGetIdentifiers(h[s].m)
    ELSE GetIdentifiersOverlayOnly(h, h[s].b)

RECURSIVE GetIdentifiers(_, _)
\* context.GetIdentifiers on the store s of heap h: every result the call can return
GetIdentifiers(h, s) ==
    IF h[s].kind = "map"
    THEN mapGetIdentifiers(h[s].m)
    ELSE {x \o y : x \in GetIdentifiers(h, h[s].a), y \in GetIdentifiers(h, h[s].b)}

ScopeIds == 1..Len(scopes)
Roots    == {i \in ScopeIds : parentOf[i] = 0}

RECURSIVE RootOf(_)
\* the root of the render tree scope i belongs to
RootOf(i) == IF parentOf[i] = 0 THEN i ELSE RootOf(parentOf[i])

RECURSIVE Ancestors(_)
\* the scopes i was derived from, directly or transitively
Ancestors(i) == IF parentOf[i] = 0 THEN {} ELSE {parentOf[i]} \cup Ancestors(parentOf[i])

SameTree(i, j) == RootOf(i) = RootOf(j)

\* operations performed so far: every scope built and every call made
Steps == Len(scopes) + ncalls

Init ==
    /\ autoescape = TRUE
    /\ \E m \in UserStores : heap = (UserStore :> MapCtx(m))
    /\ scopes = <<>>
    /\ parentOf = <<>>
    /\ ncalls = 0
    /\ last = Op("init", 0, "", 0)

\* SetAutoescape reaching the scopes built before the call
SetAutoescapeRetroactive(newValue) ==
    /\ Steps < MaxSteps
    /\ autoescape' = newValue
    /\ scopes' = [i \in ScopeIds |-> [scopes[i] EXCEPT !.Autoescape = newValue]]
    /\ ncalls' = ncalls + 1
    /\ last' = Op("SetAutoescape", 0, "", 0)
    /\ UNCHANGED <<heap, parentOf>>

\* SetAutoescape(newValue)
SetAutoescape(newValue) ==
    /\ Steps < MaxSteps
    /\ autoescape' = newValue
    /\ ncalls' = ncalls + 1
    /\ last' = Op("SetAutoescape", 0, "", 0)
    /\ UNCHANGED <<heap, scopes, parentOf>>

\* newExecutionContext storing ctx itself in Public, without an overlay
newExecutionContextNoOverlay(tpl, ctx) ==
    /\ Steps < MaxSteps
    /\ LET new        == Len(scopes) + 1
           privateCtx == <<"private", new>>
       IN  /\ heap' = heap @@ (privateCtx :> MapCtx([n \in {"pongo2"} |-> pongo2MetaContext]))
           /\ scopes' = Append(scopes, [template   |-> tpl,
                                        macroDepth |-> 0,
                                        Autoescape |-> autoescape,
                                        Public     |-> ctx,
                                        Private    |-> privateCtx,
                                        Shared     |-> NilCtx])
    /\ parentOf' = Append(parentOf, 0)
    /\ last' = Op("newExecutionContext", Len(scopes) + 1, "", 0)
    /\ UNCHANGED <<autoescape, ncalls>>

\* newExecutionContext(tpl, ctx): heap gets privateCtx, the empty overlay
\* and the mergedContext built over ctx
newExecutionContext(tpl, ctx) ==
    /\ Steps < MaxSteps
    /\ LET new        == Len(scopes) + 1
           privateCtx == <<"private", new>>
           overlay    == <<"overlay", new>>
           public     == <<"public", new>>
       IN  /\ heap' = heap @@ (privateCtx :> MapCtx([n \in {"pongo2"} |-> pongo2MetaContext]))
                            @@ (overlay :> MapCtx(EmptyMap))
                            @@ (public :> mergeContexts(ctx, overlay))
           /\ scopes' = Append(scopes, [template   |-> tpl,
                                        macroDepth |-> 0,
                                        Autoescape |-> autoescape,
                                        Public     |-> public,
                                        Private    |-> privateCtx,
                                        Shared     |-> NilCtx])
    /\ parentOf' = Append(parentOf, 0)
    /\ last' = Op("newExecutionContext", Len(scopes) + 1, "", 0)
    /\ UNCHANGED <<autoescape, ncalls>>

\* NewChildExecutionContext handing the parent's Private to the child as it
\* does with Public
NewChildSharedPrivate(parent) ==
    /\ Steps < MaxSteps
    /\ heap' = heap
    /\ scopes' = Append(scopes, [template   |-> scopes[parent].template,
                                 macroDepth |-> 0,
                                 Autoescape |-> scopes[parent].Autoescape,
                                 Public     |-> scopes[parent].Public,
                                 Private    |-> scopes[parent].Private,
                                 Shared     |-> scopes[parent].Shared])
    /\ parentOf' = Append(parentOf, parent)
    /\ last' = Op("NewChildExecutionContext", Len(scopes) + 1, "", 0)
    /\ UNCHANGED <<autoescape, ncalls>>

\* NewChildExecutionContext giving the child an overlay of its own on Public
\* as it does on Private
NewChildOwnPublic(parent) ==
    /\ Steps < MaxSteps
    /\ LET new     == Len(scopes) + 1
           overlay == <<"overlay", new>>
           private == <<"private", new>>
           pubover == <<"puboverlay", new>>
           public  == <<"public", new>>
       IN  /\ heap' = heap @@ (overlay :> MapCtx(EmptyMap))
                            @@ (private :> mergeContexts(scopes[parent].Private, overlay))
                            @@ (pubover :> MapCtx(EmptyMap))
                            @@ (public :> mergeContexts(scopes[parent].Public, pubover))
           /\ scopes' = Append(scopes, [template   |-> scopes[parent].template,
                                        macroDepth |-> 0,
                                        Autoescape |-> scopes[parent].Autoescape,
                                        Public     |-> public,
                                        Private    |-> private,
                                        Shared     |-> scopes[parent].Shared])
    /\ parentOf' = Append(parentOf, parent)
    /\ last' = Op("NewChildExecutionContext", Len(scopes) + 1, "", 0)
    /\ UNCHANGED <<autoescape, ncalls>>

\* NewChildExecutionContext taking Autoescape from the package variable as
\* newExecutionContext does
NewChildDefaultAutoescape(parent) ==
    /\ Steps < MaxSteps
    /\ LET new     == Len(scopes) + 1
           overlay == <<"overlay", new>>
           private == <<"private", new>>
       IN  /\ heap' = heap @@ (overlay :> MapCtx(EmptyMap))
                            @@ (private :> mergeContexts(scopes[parent].Private, overlay))
           /\ scopes' = Append(scopes, [template   |-> scopes[parent].template,
                                        macroDepth |-> 0,
                                        Autoescape |-> autoescape,
                                        Public     |-> scopes[parent].Public,
                                        Private    |-> private,
                                        Shared     |-> scopes[parent].Shared])
    /\ parentOf' = Append(parentOf, parent)
    /\ last' = Op("NewChildExecutionContext", Len(scopes) + 1, "", 0)
    /\ UNCHANGED <<autoescape, ncalls>>

\* NewChildExecutionContext copying macroDepth from the parent as it copies
\* template and Autoescape
NewChildCarryMacroDepth(parent) ==
    /\ Steps < MaxSteps
    /\ LET new     == Len(scopes) + 1
           overlay == <<"overlay", new>>
           private == <<"private", new>>
       IN  /\ heap' = heap @@ (overlay :> MapCtx(EmptyMap))
                            @@ (private :> mergeContexts(scopes[parent].Private, overlay))
           /\ scopes' = Append(scopes, [template   |-> scopes[parent].template,
                                        macroDepth |-> scopes[parent].macroDepth,
                                        Autoescape |-> scopes[parent].Autoescape,
                                        Public     |-> scopes[parent].Public,
                                        Private    |-> private,
                                        Shared     |-> scopes[parent].Shared])
    /\ parentOf' = Append(parentOf, parent)
    /\ last' = Op("NewChildExecutionContext", Len(scopes) + 1, "", 0)
    /\ UNCHANGED <<autoescape, ncalls>>

\* NewChildExecutionContext(parent)
NewChildExecutionContext(parent) ==
    /\ Steps < MaxSteps
    /\ LET new     == Len(scopes) + 1
           overlay == <<"overlay", new>>
           private == <<"private", new>>
       IN  /\ heap' = heap @@ (overlay :> MapCtx(EmptyMap))
                            @@ (private :> mergeContexts(scopes[parent].Private, overlay))
           /\ scopes' = Append(scopes, [template   |-> scopes[parent].template,
                                        macroDepth |-> 0,
                                        Autoescape |-> scopes[parent].Autoescape,
                                        Public     |-> scopes[parent].Public,
                                        Private    |-> private,
                                        Shared     |-> scopes[parent].Shared])
    /\ parentOf' = Append(parentOf, parent)
    /\ last' = Op("NewChildExecutionContext", Len(scopes) + 1, "", 0)
    /\ UNCHANGED <<autoescape, ncalls>>

\* ctx.Shared = mapContext{} : the caller fills the exported field of a root
AssignShared(s) ==
    /\ Steps < MaxSteps
    /\ parentOf[s] = 0
    /\ scopes[s].Shared = NilCtx
    /\ heap' = heap @@ (<<"shared", s>> :> MapCtx(EmptyMap))
    /\ scopes' = [scopes EXCEPT ![s].Shared = <<"shared", s>>]
    /\ ncalls' = ncalls + 1
    /\ last' = Op("AssignShared", s, "", 0)
    /\ UNCHANGED <<autoescape, parentOf>>

\* ctx.Autoescape = v : assignment to the exported field
AssignAutoescape(s, v) ==
    /\ Steps < MaxSteps
    /\ scopes' = [scopes EXCEPT ![s].Autoescape = v]
    /\ ncalls' = ncalls + 1
    /\ last' = Op("AssignAutoescape", s, "", 0)
    /\ UNCHANGED <<autoescape, heap, parentOf>>

\* ctx.macroDepth++ : the engine counts a macro invocation on the scope
IncMacroDepth(s) ==
    /\ Steps < MaxSteps
    /\ scopes' = [scopes EXCEPT ![s].macroDepth = @ + 1]
    /\ ncalls' = ncalls + 1
    /\ last' = Op("IncMacroDepth", s, "", 0)
    /\ UNCHANGED <<autoescape, heap, parentOf>>

\* ctx.Public.SetValue(key, val)
PublicSetValue(s, key, val) ==
    /\ Steps < MaxSteps
    /\ heap' = SetValue(heap, scopes[s].Public, key, val)
    /\ ncalls' = ncalls + 1
    /\ last' = Op("PublicSetValue", s, key, val)
    /\ UNCHANGED <<autoescape, scopes, parentOf>>

\* ctx.Private.SetValue(key, val)
PrivateSetValue(s, key, val) ==
    /\ Steps < MaxSteps
    /\ heap' = SetValue(heap, scopes[s].Private, key, val)
    /\ ncalls' = ncalls + 1
    /\ last' = Op("PrivateSetValue", s, key, val)
    /\ UNCHANGED <<autoescape, scopes, parentOf>>

\* ctx.Shared.SetValue(key, val); on a nil Shared the call panics
SharedSetValue(s, key, val) ==
    /\ Steps < MaxSteps
    /\ scopes[s].Shared # NilCtx
    /\ heap' = SetValue(heap, scopes[s].Shared, key, val)
    /\ ncalls' = ncalls + 1
    /\ last' = Op("SharedSetValue", s, key, val)
    /\ UNCHANGED <<autoescape, scopes, parentOf>>

Next ==
    \/ \E v \in BOOLEAN : SetAutoescape(v)
    \/ \E tpl \in Templates : newExecutionContext(tpl, UserStore)
    \/ \E p \in ScopeIds : NewChildExecutionContext(p)
    \/ \E s \in ScopeIds : AssignShared(s)
    \/ \E s \in ScopeIds, v \in BOOLEAN : AssignAutoescape(s, v)
    \/ \E s \in ScopeIds : IncMacroDepth(s)
    \/ \E s \in ScopeIds, k \in Names, v \in Values : PublicSetValue(s, k, v)
    \/ \E s \in ScopeIds, k \in Names, v \in Values : PrivateSetValue(s, k, v)
    \/ \E s \in ScopeIds, k \in Names, v \in Values : SharedSetValue(s, k, v)

Spec == Init /\ [][Next]_vars

(***************************************************************************)
(* checkForValidIdentifiers.  A string is the sequence of its characters.  *)
(***************************************************************************)
MaxIdentifiers == 2   \* length of the slice handed to checkForValidIdentifiers

Lower  == {"a", "b", "c", "d", "e", "f", "g", "h", "i", "j", "k", "l", "m",
           "n", "o", "p", "q", "r", "s", "t", "u", "v", "w", "x", "y", "z"}
Upper  == {"A", "B", "C", "D", "E", "F", "G", "H", "I", "J", "K", "L", "M",
           "N", "O", "P", "Q", "R", "S", "T", "U", "V", "W", "X", "Y", "Z"}
Digits == {"0", "1", "2", "3", "4", "5", "6", "7", "8", "9"}

\* the names offered to the validator
CandidateNames ==
    { <<"a", "_", "1">>, <<"F", "o", "o">>, <<"_">>, <<"9">>,
      <<"a", "-", "1">>, <<>>, <<"a", " ", "b">>, <<"a", "\n">> }

IdentifierLists ==
    UNION {[1..n -> CandidateNames] : n \in 0..MaxIdentifiers}

\* a nil *Error
NilError == [nil |-> TRUE]
\* a nil *Template and a nil *Token
NilTemplate == "nil"
NilToken    == [nil |-> TRUE]

\* &Error{...}: the fields a composite literal leaves out have their zero value
ErrorValue(template, filename, line, column, token, sender, origError) ==
    [Template |-> template, Filename |-> filename, Line |-> line, Column |-> column,
     Token |-> token, Sender |-> sender, OrigError |-> origError]

\* reIdentifiers accepting the empty string: "*" in place of "+"
reIdentifiersMatchEmpty(v) ==
    \A i \in 1..Len(v) : v[i] \in Lower \cup Upper \cup Digits \cup {"_"}

\* reIdentifiers.MatchString(v) for ^[a-zA-Z0-9_]+$
reIdentifiersMatch(v) ==
    /\ Len(v) >= 1
    /\ \A i \in 1..Len(v) : v[i] \in Lower \cup Upper \cup Digits \cup {"_"}

\* fmt.Errorf("context-key '%s' is not a valid identifier", v)
InvalidIdentifierError(v) == <<"context-key '", v, "' is not a valid identifier">>

RECURSIVE checkFromKeepGoing(_, _, _)
\* the loop of checkForValidIdentifiers remembering the error and going on
checkFromKeepGoing(identifiers, i, err) ==
    IF i > Len(identifiers) THEN err
    ELSE IF ~reIdentifiersMatch(identifiers[i])
         THEN checkFromKeepGoing(identifiers, i + 1,
                  ErrorValue(NilTemplate, "", 0, 0, NilToken, "checkForValidIdentifiers",
                             InvalidIdentifierError(identifiers[i])))
         ELSE checkFromKeepGoing(identifiers, i + 1, err)

\* checkForValidIdentifiers reporting the last invalid name
checkForValidIdentifiersLast(identifiers) == checkFromKeepGoing(identifiers, 1, NilError)

RECURSIVE checkFrom(_, _)
\* the loop of checkForValidIdentifiers from index i on
checkFrom(identifiers, i) ==
    IF i > Len(identifiers) THEN NilError
    ELSE IF ~reIdentifiersMatch(identifiers[i])
         THEN ErrorValue(NilTemplate, "", 0, 0, NilToken, "checkForValidIdentifiers",
                         InvalidIdentifierError(identifiers[i]))
         ELSE checkFrom(identifiers, i + 1)

\* checkForValidIdentifiers(identifiers)
checkForValidIdentifiers(identifiers) == checkFrom(identifiers, 1)

\* a call of checkForValidIdentifiers: last holds the argument and the result
CheckForValidIdentifiers(identifiers) ==
    /\ last' = [op |-> "checkForValidIdentifiers", identifiers |-> identifiers,
                ret |-> checkForValidIdentifiers(identifiers)]
    /\ UNCHANGED <<autoescape, heap, scopes, parentOf, ncalls>>

NextValidator == \E identifiers \in IdentifierLists : CheckForValidIdentifiers(identifiers)

SpecValidator == Init /\ [][NextValidator]_vars

(***************************************************************************)
(* ExecutionContext.Error and ExecutionContext.OrigError                   *)
(***************************************************************************)
\* the templates scopes are built for in the runs that report errors
DiagTemplates == {"tpl", "inc"}

\* Template.name
TemplateName(t) == IF t = "tpl" THEN "index.html" ELSE "header.html"

\* the tokens handed to the reporters: none, one of another file with a
\* position, one of a template's own file at position zero
Tokens ==
    { NilToken,
      [Filename |-> "macros.html", Line |-> 3, Col |-> 5],
      [Filename |-> "index.html", Line |-> 0, Col |-> 0] }

Messages == {"boom"}

\* errors.New(msg)
ErrorsNew(msg) == [errorString |-> msg]

\* OrigError leaving the filename of the template in place when a token is given
OrigErrorTemplateFilename(ctx, err, token) ==
    ErrorValue(ctx.template,
               TemplateName(ctx.template),
               IF token # NilToken THEN token.Line ELSE 0,
               IF token # NilToken THEN token.Col ELSE 0,
               token, "execution", err)

\* ctx.OrigError(err, token), ctx an ExecutionContext struct
OrigError(ctx, err, token) ==
    LET filename == IF token # NilToken THEN token.Filename ELSE TemplateName(ctx.template)
        line     == IF token # NilToken THEN token.Line ELSE 0
        col      == IF token # NilToken THEN token.Col ELSE 0
    IN  ErrorValue(ctx.template, filename, line, col, token, "execution", err)

\* ctx.Error(msg, token)
Error(ctx, msg, token) == OrigError(ctx, ErrorsNew(msg), token)

\* a call of ctx.Error on scope s: last holds the arguments and the result
ErrorCall(s, msg, token) ==
    /\ Steps < MaxSteps
    /\ last' = [op |-> "Error", scope |-> s, cause |-> ErrorsNew(msg), token |-> token,
                ret |-> Error(scopes[s], msg, token)]
    /\ ncalls' = ncalls + 1
    /\ UNCHANGED <<autoescape, heap, scopes, parentOf>>

\* a call of ctx.OrigError on scope s
OrigErrorCall(s, err, token) ==
    /\ Steps < MaxSteps
    /\ last' = [op |-> "OrigError", scope |-> s, cause |-> err, token |-> token,
                ret |-> OrigError(scopes[s], err, token)]
    /\ ncalls' = ncalls + 1
    /\ UNCHANGED <<autoescape, heap, scopes, parentOf>>

\* the causes handed to OrigError: an error of the validator
Causes == {checkForValidIdentifiers(<< <<"a", "-", "1">> >>)}

NextDiag ==
    \/ \E tpl \in DiagTemplates : newExecutionContext(tpl, UserStore)
    \/ \E p \in ScopeIds : NewChildExecutionContext(p)
    \/ \E s \in ScopeIds, msg \in Messages, token \in Tokens : ErrorCall(s, msg, token)
    \/ \E s \in ScopeIds, err \in Causes, token \in Tokens : OrigErrorCall(s, err, token)

SpecDiag == Init /\ [][NextDiag]_vars

(***************************************************************************)
(* Vocabulary of the properties                                            *)
(***************************************************************************)
StoreIds == DOMAIN heap
Views    == {s \in StoreIds : heap[s].kind = "merged"}
SetOps   == {"PublicSetValue", "PrivateSetValue", "SharedSetValue"}
Found(v) == [val |-> v, found |-> TRUE]

\* the store the last SetValue was called on
Written ==
    IF last.op = "PublicSetValue" THEN scopes[last.scope].Public
    ELSE IF last.op = "PrivateSetValue" THEN scopes[last.scope].Private
    ELSE IF last.op = "SharedSetValue" THEN scopes[last.scope].Shared
    ELSE NilCtx

RECURSIVE Under(_, _)
\* the store s and every store it is composed of, at any depth
Under(h, s) ==
    IF h[s].kind = "map" THEN {s}
    ELSE {s} \cup Under(h, h[s].a) \cup Under(h, h[s].b)

\* reads of store s give the same results in heaps h1 and h2
SameReads(h1, h2, s) ==
    /\ \A n \in Names : GetValue(h1, s, n) = GetValue(h2, s, n)
    /\ GetIdentifiers(h1, s) = GetIdentifiers(h2, s)

TypeOK ==
    /\ autoescape \in BOOLEAN
    /\ Len(parentOf) = Len(scopes)
    /\ ncalls \in 0..MaxSteps
    /\ \A i \in ScopeIds : parentOf[i] \in 0..(i - 1)
    /\ \A s \in Views : heap[s].a \in StoreIds /\ heap[s].b \in StoreIds

(***************************************************************************)
(* C1: a SetValue called on a ScopeView leaves its base unchanged: every   *)
(* store the base is composed of, at any depth of stacking, answers        *)
(* GetValue and GetIdentifiers as before the call, and the only store of   *)
(* the heap that changes is the overlay of the view the call was made on.  *)
(***************************************************************************)
C1_WriteNeverMutatesBase ==
    [][ (last'.op \in SetOps /\ Written' \in Views) =>
            LET V == Written'
            IN  /\ \A B \in Under(heap, heap[V].a) : SameReads(heap, heap', B)
                /\ \A s \in StoreIds \ {heap[V].b} : heap'[s] = heap[s]
                /\ GetValue(heap', heap[V].b, last'.key) = Found(last'.val) ]_vars

\* a view stacked on another view was written with a name its base holds
\* with another value
C1_Witness ==
    /\ last.op \in SetOps
    /\ Written \in Views
    /\ heap[Written].a \in Views
    /\ GetValue(heap, heap[Written].a, last.key).found
    /\ GetValue(heap, heap[Written].a, last.key).val # last.val
    /\ GetValue(heap, Written, last.key) = Found(last.val)

(***************************************************************************)
(* C2: the store handed to newExecutionContext keeps exactly its entries   *)
(* through every step, and a Public.SetValue(k, v) made through any scope  *)
(* is read back by Public.GetValue(k) as (v, true).                        *)
(***************************************************************************)
C2_UserStoreProtected ==
    [][ /\ heap'[UserStore] = heap[UserStore]
        /\ last'.op = "PublicSetValue" =>
               GetValue(heap', scopes'[last'.scope].Public, last'.key) = Found(last'.val) ]_vars

\* a derived scope wrote through Public a name the user store holds with
\* another value
C2_Witness ==
    /\ last.op = "PublicSetValue"
    /\ parentOf[last.scope] # 0
    /\ last.key \in DOMAIN heap[UserStore].m
    /\ heap[UserStore].m[last.key] # last.val
    /\ GetValue(heap, scopes[last.scope].Public, last.key) = Found(last.val)

(***************************************************************************)
(* C3: GetValue on a ScopeView answers with the overlay's entry whenever   *)
(* the overlay has the name, with the base's entry when only the base has  *)
(* it, and with found = false exactly when neither has it.                 *)
(***************************************************************************)
C3_OverlayFirst ==
    \A V \in Views : \A n \in Names :
        LET o  == GetValue(heap, heap[V].b, n)
            ba == GetValue(heap, heap[V].a, n)
            r  == GetValue(heap, V, n)
        IN  /\ o.found => r = o
            /\ (~o.found /\ ba.found) => r = ba
            /\ (~r.found) <=> (~o.found /\ ~ba.found)

\* one view where overlay and base hold a name with different values, and
\* another name is in neither
C3_Witness ==
    \E V \in Views : \E n, m \in Names :
        /\ GetValue(heap, heap[V].b, n).found
        /\ GetValue(heap, heap[V].a, n).found
        /\ GetValue(heap, heap[V].b, n).val # GetValue(heap, heap[V].a, n).val
        /\ GetValue(heap, V, n) = GetValue(heap, heap[V].b, n)
        /\ ~GetValue(heap, V, m).found

(***************************************************************************)
(* C4: a Private.SetValue made through a derived scope C changes no result *)
(* of Private.GetValue or Private.GetIdentifiers on any scope that is      *)
(* neither C nor a descendant of C: parent, ancestors, siblings, scopes of *)
(* other trees.                                                            *)
(***************************************************************************)
Children == {i \in ScopeIds : parentOf[i] # 0}

C4_ChildPrivateWriteIsolated ==
    [][ (last'.op = "PrivateSetValue" /\ last'.scope \in Children) =>
            \A t \in ScopeIds :
                (t # last'.scope /\ last'.scope \notin Ancestors(t)) =>
                    SameReads(heap, heap', scopes[t].Private) ]_vars

\* a child with a sibling wrote a name its parent's Private resolves to
\* another value, and the parent and the sibling still read the old one
C4_Witness ==
    /\ last.op = "PrivateSetValue"
    /\ last.scope \in Children
    /\ GetValue(heap, scopes[last.scope].Private, last.key) = Found(last.val)
    /\ GetValue(heap, scopes[parentOf[last.scope]].Private, last.key).found
    /\ GetValue(heap, scopes[parentOf[last.scope]].Private, last.key).val # last.val
    /\ \E t \in Children :
           /\ t # last.scope
           /\ parentOf[t] = parentOf[last.scope]
           /\ GetValue(heap, scopes[t].Private, last.key).val # last.val

(***************************************************************************)
(* C5: for a child C of parent P, a name never written through C.Private   *)
(* reads through C.Private as it reads through P.Private after every step, *)
(* writes made to P after the derivation included; a name written through  *)
(* C.Private reads as the value C wrote, and no step other than a write of *)
(* that name through C.Private changes what C reads for it.                *)
(***************************************************************************)
\* the names written through the Private of the derived scope c
WrittenThrough(h, c) == DOMAIN h[h[scopes[c].Private].b].m

C5_ReadThrough ==
    \A c \in Children : \A n \in Names \ WrittenThrough(heap, c) :
        GetValue(heap, scopes[c].Private, n) = GetValue(heap, scopes[parentOf[c]].Private, n)

C5_Shadow ==
    \A c \in Children : \A n \in Names :
        IF last'.op = "PrivateSetValue" /\ last'.scope = c /\ last'.key = n
        THEN GetValue(heap', scopes[c].Private, n) = Found(last'.val)
        ELSE n \in WrittenThrough(heap, c) =>
                GetValue(heap', scopes[c].Private, n) = GetValue(heap, scopes[c].Private, n)

C5_ChildReadsParentUnlessShadowed == [][C5_ReadThrough' /\ C5_Shadow]_vars

\* the parent wrote a name after the child was derived and the child reads
\* the new value, while another name the child wrote earlier still reads as
\* the child's value although the parent holds another one
C5_Witness ==
    /\ last.op = "PrivateSetValue"
    /\ \E c \in Children :
           /\ parentOf[c] = last.scope
           /\ last.key \notin WrittenThrough(heap, c)
           /\ GetValue(heap, scopes[c].Private, last.key) = Found(last.val)
           /\ \E n \in WrittenThrough(heap, c) :
                  /\ GetValue(heap, scopes[last.scope].Private, n).found
                  /\ GetValue(heap, scopes[last.scope].Private, n)
                         # GetValue(heap, scopes[c].Private, n)

(***************************************************************************)
(* C6: in every state Public.GetValue gives the same result on every scope *)
(* of one render tree (each scope reads what the root of its tree reads),  *)
(* and after S.Public.SetValue(n, v) every scope T of the tree reads       *)
(* (v, true) for n through its Public.                                     *)
(***************************************************************************)
C6_PublicShared ==
    /\ \A s \in ScopeIds : \A n \in Names :
           GetValue(heap, scopes[s].Public, n) = GetValue(heap, scopes[RootOf(s)].Public, n)
    /\ last.op = "PublicSetValue" =>
           \A t \in ScopeIds : SameTree(last.scope, t) =>
               GetValue(heap, scopes[t].Public, last.key) = Found(last.val)

\* a child wrote through Public a value the user store does not hold for
\* the name, in a tree that has the parent and a sibling to read it
C6_Witness ==
    /\ last.op = "PublicSetValue"
    /\ last.scope \in Children
    /\ GetValue(heap, UserStore, last.key) # Found(last.val)
    /\ \E t \in Children :
           /\ t # last.scope
           /\ parentOf[t] = parentOf[last.scope]
           /\ GetValue(heap, scopes[t].Public, last.key) = Found(last.val)
           /\ GetValue(heap, scopes[parentOf[t]].Public, last.key) = Found(last.val)

(***************************************************************************)
(* C7: any two scopes of one render tree hold the identical Shared store   *)
(* in every state, whatever the order of filling the root's Shared field   *)
(* and deriving children, and a Shared.SetValue(n, v) made through one     *)
(* scope is read as (v, true) through the Shared of every scope of the     *)
(* tree.                                                                   *)
(***************************************************************************)
C7_SharedIdentical ==
    /\ \A s, t \in ScopeIds : SameTree(s, t) => scopes[s].Shared = scopes[t].Shared
    /\ last.op = "SharedSetValue" =>
           \A t \in ScopeIds : SameTree(last.scope, t) =>
               /\ scopes[t].Shared # NilCtx
               /\ GetValue(heap, scopes[t].Shared, last.key) = Found(last.val)

(***************************************************************************)
(* C8: the Autoescape of a built scope changes only in a step that assigns *)
(* that scope's own Autoescape field: an assignment to another scope       *)
(* (parent, sibling, child) and a call of SetAutoescape leave it as it is. *)
(***************************************************************************)
C8_AutoescapeOwnAssignmentOnly ==
    [][ \A s \in ScopeIds :
            scopes'[s].Autoescape # scopes[s].Autoescape =>
                (last'.op = "AssignAutoescape" /\ last'.scope = s) ]_vars

\* the Autoescape of a scope was assigned and now differs from that of its
\* parent, of a sibling and of a child derived before
C8_Witness ==
    /\ last.op = "AssignAutoescape"
    /\ last.scope \in Children
    /\ scopes[parentOf[last.scope]].Autoescape # scopes[last.scope].Autoescape
    /\ \E t \in Children :
           /\ t # last.scope
           /\ parentOf[t] = parentOf[last.scope]
           /\ scopes[t].Autoescape # scopes[last.scope].Autoescape
    /\ \E k \in Children :
           /\ parentOf[k] = last.scope
           /\ scopes[k].Autoescape # scopes[last.scope].Autoescape

(***************************************************************************)
(* C9: every result of GetIdentifiers on a ScopeView is a result of the    *)
(* base followed by a result of the overlay, nothing removed: each name    *)
(* occurs as often as in the base's list plus the overlay's list, hence    *)
(* once per FlatStore of the chain that stores it.                         *)
(***************************************************************************)
\* the number of occurrences of n in the sequence r
Count(n, r) == Cardinality({i \in 1..Len(r) : r[i] = n})

\* the FlatStores under s that store n
Layers(s, n) == {f \in Under(heap, s) : heap[f].kind = "map" /\ n \in DOMAIN heap[f].m}

C9_ConcatNoDedup ==
    \A V \in Views : \A r \in GetIdentifiers(heap, V) :
        /\ \E x \in GetIdentifiers(heap, heap[V].a), y \in GetIdentifiers(heap, heap[V].b) :
               r = x \o y
        /\ \A x \in GetIdentifiers(heap, heap[V].a), y \in GetIdentifiers(heap, heap[V].b) :
               \A n \in Names : Count(n, r) = Count(n, x) + Count(n, y)
        /\ \A n \in Names : Count(n, r) = Cardinality(Layers(V, n))

\* a Private chain of two overlays over the root's FlatStore, all three
\* storing one name, which is listed three times
C9_Witness ==
    \E V \in Views : \E n \in Names :
        /\ heap[V].a \in Views
        /\ n \in DOMAIN heap[heap[V].b].m
        /\ n \in DOMAIN heap[heap[heap[V].a].b].m
        /\ GetValue(heap, heap[heap[V].a].a, n).found
        /\ \A r \in GetIdentifiers(heap, V) : Count(n, r) = 3

(***************************************************************************)
(* C10: on every store, FlatStore or ScopeView of any depth, in every      *)
(* state, a name occurs in a result of GetIdentifiers if and only if       *)
(* GetValue finds it.                                                      *)
(***************************************************************************)
C10_IdentifiersAreResolvable ==
    \A s \in StoreIds : \A r \in GetIdentifiers(heap, s) : \A n \in Names :
        (Count(n, r) > 0) <=> GetValue(heap, s, n).found

\* after a SetValue, a view stacked on a view lists a name that only the
\* store at the bottom holds and does not list a name nobody holds
C10_Witness ==
    /\ last.op \in SetOps
    /\ \E V \in Views : \E n, m \in Names :
           /\ heap[V].a \in Views
           /\ ~GetValue(heap, heap[V].b, n).found
           /\ ~GetValue(heap, heap[heap[V].a].b, n).found
           /\ GetValue(heap, V, n).found
           /\ \A r \in GetIdentifiers(heap, V) : Count(n, r) = 1 /\ Count(m, r) = 0
           /\ ~GetValue(heap, V, m).found

(***************************************************************************)
(* C13: on every store, FlatStore or ScopeView, whether or not the store   *)
(* or its base already holds the name, a SetValue(k, v) is followed by     *)
(* GetValue(k) = (v, true) on the same store, whatever an earlier SetValue *)
(* stored for k, and GetValue(m) of every other name m is what it was      *)
(* before the call.                                                        *)
(***************************************************************************)
C13_ReadYourWrites ==
    [][ last'.op \in SetOps =>
            /\ GetValue(heap', Written', last'.key) = Found(last'.val)
            /\ \A m \in Names \ {last'.key} :
                   GetValue(heap', Written', m) = GetValue(heap, Written', m) ]_vars

\* a FlatStore that got a name by an earlier SetValue was written again:
\* the entry it held for the key is replaced, the other name reads as before
C13_Witness ==
    /\ last.op = "PrivateSetValue"
    /\ last.scope \in Roots
    /\ last.key = "pongo2"
    /\ last.val # pongo2MetaContext
    /\ GetValue(heap, Written, "pongo2") = Found(last.val)
    /\ GetValue(heap, Written, "a").found

(***************************************************************************)
(* C14: a root scope is built with Autoescape equal to the package default *)
(* of that moment, which is true until SetAutoescape is first called; a    *)
(* child is built with the Autoescape its parent has at that moment, also  *)
(* when that differs from the package default.                             *)
(***************************************************************************)
C14_AutoescapeAtCreation ==
    [][ /\ last'.op = "newExecutionContext" =>
               scopes'[last'.scope].Autoescape = autoescape
        /\ last'.op = "NewChildExecutionContext" =>
               scopes'[last'.scope].Autoescape = scopes[parentOf'[last'.scope]].Autoescape
        /\ ncalls = 0 => autoescape = TRUE ]_vars

\* a child was derived from a parent whose Autoescape is neither the
\* package default of the moment nor the value the root of the tree has
C14_Witness ==
    /\ last.op = "NewChildExecutionContext"
    /\ scopes[last.scope].Autoescape = scopes[parentOf[last.scope]].Autoescape
    /\ scopes[last.scope].Autoescape # autoescape
    /\ scopes[last.scope].Autoescape # scopes[RootOf(last.scope)].Autoescape

(***************************************************************************)
(* C16: after every step the Private of a root is a FlatStore, and the     *)
(* Private of a scope d derivations below its root is d ScopeViews stacked *)
(* on the root's Private, each with a FlatStore overlay that no other      *)
(* scope has on top of its Private and that did not exist and is empty     *)
(* when the scope is derived; the Public of every scope is one ScopeView   *)
(* with a FlatStore overlay over the user store.                           *)
(***************************************************************************)
\* the nesting depth of scope i: derivations between it and its root
Depth(i) == Cardinality(Ancestors(i))

RECURSIVE ChainLen(_, _)
\* the number of ScopeViews stacked in store s above a FlatStore
ChainLen(h, s) == IF h[s].kind = "map" THEN 0 ELSE 1 + ChainLen(h, h[s].a)

RECURSIVE Bottom(_, _)
\* the FlatStore at the bottom of the chain of bases of s
Bottom(h, s) == IF h[s].kind = "map" THEN s ELSE Bottom(h, h[s].a)

RECURSIVE Overlays(_, _)
\* the overlays of the ScopeViews stacked in store s
Overlays(h, s) == IF h[s].kind = "map" THEN {} ELSE {h[s].b} \cup Overlays(h, h[s].a)

C16_Chain ==
    /\ \A r \in Roots : heap[scopes[r].Private].kind = "map"
    /\ \A s \in ScopeIds :
           /\ ChainLen(heap, scopes[s].Private) = Depth(s)
           /\ Bottom(heap, scopes[s].Private) = scopes[RootOf(s)].Private
           /\ Cardinality(Overlays(heap, scopes[s].Private)) = Depth(s)
           /\ \A o \in Overlays(heap, scopes[s].Private) : heap[o].kind = "map"
           /\ ChainLen(heap, scopes[s].Public) = 1
           /\ Bottom(heap, scopes[s].Public) = UserStore
           /\ heap[heap[scopes[s].Public].b].kind = "map"
    /\ \A s, t \in Children :
           s # t => heap[scopes[s].Private].b # heap[scopes[t].Private].b
    /\ \A s \in Children, t \in ScopeIds :
           heap[scopes[s].Private].b \notin {scopes[t].Shared, heap[scopes[t].Public].b, UserStore}

C16_FreshOverlay ==
    last'.op = "NewChildExecutionContext" =>
        /\ heap'[scopes'[last'.scope].Private].b \notin DOMAIN heap
        /\ heap'[heap'[scopes'[last'.scope].Private].b].m = EmptyMap

C16_PrivateChainIsDepth == [][C16_Chain' /\ C16_FreshOverlay]_vars

\* a scope was derived two levels below its root, in a tree where its
\* parent's overlay holds a name already
C16_Witness ==
    /\ last.op = "NewChildExecutionContext"
    /\ Depth(last.scope) = 2
    /\ ChainLen(heap, scopes[last.scope].Private) = 2
    /\ heap[heap[scopes[last.scope].Private].b].m = EmptyMap
    /\ heap[heap[scopes[parentOf[last.scope]].Private].b].m # EmptyMap

(***************************************************************************)
(* C17: a SetValue made through the Public, Private or Shared of a scope   *)
(* changes no result of GetValue or GetIdentifiers on the Public, Private  *)
(* or Shared of a scope of another render tree, the trees being built over *)
(* the same template and the same user store; the "pongo2" entry of the    *)
(* other tree's Private is among the reads that stay.                      *)
(***************************************************************************)
C17_TreesIndependent ==
    [][ last'.op \in SetOps =>
            \A t \in ScopeIds : ~SameTree(t, last'.scope) =>
                /\ SameReads(heap, heap', scopes[t].Public)
                /\ SameReads(heap, heap', scopes[t].Private)
                /\ scopes[t].Shared # NilCtx => SameReads(heap, heap', scopes[t].Shared)
                /\ GetValue(heap', scopes[t].Private, "pongo2")
                       = GetValue(heap, scopes[t].Private, "pongo2") ]_vars

\* two roots over the same template and user store, each with a Shared
\* store of its own; one wrote through its Public a value that the other
\* does not read
C17_Witness ==
    /\ last.op = "PublicSetValue"
    /\ \E t \in Roots :
           /\ ~SameTree(t, last.scope)
           /\ scopes[t].template = scopes[last.scope].template
           /\ Bottom(heap, scopes[t].Public) = Bottom(heap, scopes[last.scope].Public)
           /\ scopes[t].Shared # NilCtx
           /\ scopes[RootOf(last.scope)].Shared # NilCtx
           /\ scopes[t].Shared # scopes[RootOf(last.scope)].Shared
           /\ GetValue(heap, scopes[t].Public, last.key) # Found(last.val)
           /\ GetValue(heap, scopes[last.scope].Public, last.key) = Found(last.val)

(***************************************************************************)
(* C15: a scope built by NewChildExecutionContext has macroDepth 0         *)
(* whatever macroDepth its parent has, the derivation leaves the           *)
(* macroDepth of the parent and of every other scope as it was, and a      *)
(* scope built by newExecutionContext has macroDepth 0.                    *)
(***************************************************************************)
C15_MacroDepthNotPropagated ==
    [][ last'.op \in {"NewChildExecutionContext", "newExecutionContext"} =>
            /\ scopes'[last'.scope].macroDepth = 0
            /\ \A s \in ScopeIds : scopes'[s].macroDepth = scopes[s].macroDepth ]_vars

\* a child was derived from a parent that is two macro invocations deep
C15_Witness ==
    /\ last.op = "NewChildExecutionContext"
    /\ scopes[parentOf[last.scope]].macroDepth = 2
    /\ scopes[last.scope].macroDepth = 0

(***************************************************************************)
(* C11: checkForValidIdentifiers returns nil if and only if every name of  *)
(* the slice is non-empty and made of characters of [A-Za-z0-9_] only (so  *)
(* for the empty slice); otherwise it returns one error with Sender        *)
(* "checkForValidIdentifiers" whose message names the invalid name of the  *)
(* lowest index, whatever invalid names follow.                            *)
(***************************************************************************)
\* v is a well-formed identifier, stated on the characters
WellFormed(v) ==
    /\ v # <<>>
    /\ {v[i] : i \in 1..Len(v)} \subseteq Lower \cup Upper \cup Digits \cup {"_"}

\* the indexes of the names of ids that are not well-formed
InvalidAt(ids) == {i \in 1..Len(ids) : ~WellFormed(ids[i])}

C11_FailFastOnFirstInvalid ==
    last.op = "checkForValidIdentifiers" =>
        LET ids == last.identifiers
            bad == InvalidAt(ids)
        IN  /\ (last.ret = NilError) <=> (bad = {})
            /\ bad # {} =>
                   LET first == CHOOSE i \in bad : \A j \in bad : i <= j
                   IN  /\ last.ret.Sender = "checkForValidIdentifiers"
                       /\ last.ret.OrigError[2] = ids[first]
                       /\ last.ret.OrigError
                              = <<"context-key '", ids[first], "' is not a valid identifier">>

\* a slice with two different invalid names: the error names the first of
\* them
C11_Witness ==
    /\ last.op = "checkForValidIdentifiers"
    /\ Len(last.identifiers) >= 2
    /\ Cardinality(InvalidAt(last.identifiers)) >= 2
    /\ \E i, j \in InvalidAt(last.identifiers) :
           /\ i < j
           /\ last.identifiers[i] # last.identifiers[j]
           /\ last.ret.OrigError[2] = last.identifiers[i]

(***************************************************************************)
(* C12: Error(msg, token) and OrigError(cause, token) always return an     *)
(* error value: its Sender is "execution", its Template the scope's        *)
(* template, its Token the given token and its OrigError the cause (for    *)
(* Error, errors.New(msg)); without a token Line and Column are 0 and      *)
(* Filename is the name of the template; with a token Filename, Line and   *)
(* Column are the token's, the template's name is not used.                *)
(***************************************************************************)
C12_ExecutionError ==
    last.op \in {"Error", "OrigError"} =>
        LET e   == last.ret
            tok == last.token
            tpl == scopes[last.scope].template
        IN  /\ e # NilError
            /\ e.Sender = "execution"
            /\ e.Template = tpl
            /\ e.Token = tok
            /\ e.OrigError = last.cause
            /\ tok = NilToken =>
                   /\ e.Line = 0
                   /\ e.Column = 0
                   /\ e.Filename = TemplateName(tpl)
            /\ tok # NilToken =>
                   /\ e.Filename = tok.Filename
                   /\ e.Line = tok.Line
                   /\ e.Column = tok.Col

\* an error was reported on a derived scope with a token of another file
\* than the template's
C12_Witness ==
    /\ last.op = "Error"
    /\ last.scope \in Children
    /\ last.token # NilToken
    /\ last.token.Filename # TemplateName(scopes[last.scope].template)
    /\ last.ret.Filename = last.token.Filename
    /\ last.ret.Line = 3
====
